---- MODULE Spec2Model ----
(***************************************************************************)
(* Cross-validation driver (create_models_with_cross_validation.py), its   *)
(* argument validation, and the chart / results classes of                 *)
(* data_and_visualization_io.py.                                           *)
(*                                                                         *)
(* Three specifications share the module:                                  *)
(*   Spec       one run of main(): get_arguments() and setup()             *)
(*   SpecCharts calls on a Charts object, its ROCChart and an AccuracyChart*)
(*   SpecData   calls on a DataChartIO object                              *)
(***************************************************************************)
EXTENDS Integers, Sequences, FiniteSets, TLC

\* ------------------------------------------------------------------ bounds
\* Fold indices range over 0..MaxFolds-1; fold counts over 0..MaxFolds.
MaxFolds == 3

VARIABLES
    \* --- main() ---
    args,       \* the argparse.Namespace returned by initialize_argparse()
    pc,         \* the statement of main()/setup()/get_arguments() to run next
    built,      \* objects setup() has constructed so far
    steps,      \* calls main() has completed, in order: [call, fold]
    error,      \* the exception that left main(), "None" while there is none
    \* --- Charts / ROCChart / AccuracyChart ---
    roc,        \* ROCChart: [fpr, tpr, auc], each a dict keyed by fold index
    accuracy,   \* AccuracyChart: [training, validation], dicts keyed by fold index
    files,      \* names of the files written under graphs/
    lastCall,   \* the latest call on a chart or DataChartIO object, with its outcome
    \* --- DataChartIO ---
    dio,        \* DataChartIO: [index, history, results]
    csv,        \* graphs/final_acc_loss.csv: [written, header, rows]
    dioCalls    \* the update_and_save_graphs calls that returned, in order

mainVars  == <<args, pc, built, steps, error>>
chartVars == <<roc, accuracy>>
dataVars  == <<dio, csv, dioCalls>>
ioVars    == <<files, lastCall>>
vars      == <<args, pc, built, steps, error, roc, accuracy, files, lastCall,
               dio, csv, dioCalls>>

\* ------------------------------------------------------- Python helpers

\* A dict with no entries.
EmptyDict == [k \in {} |-> 0]

\* d[k] = v : adds the key or overwrites its entry.
DictSet(d, k, v) == [x \in (DOMAIN d) \cup {k} |-> IF x = k THEN v ELSE d[x]]

\* str(n) for a non-negative int: decimal digits, no padding.
Digit(d) ==
    CASE d = 0 -> "0" [] d = 1 -> "1" [] d = 2 -> "2" [] d = 3 -> "3"
      [] d = 4 -> "4" [] d = 5 -> "5" [] d = 6 -> "6" [] d = 7 -> "7"
      [] d = 8 -> "8" [] d = 9 -> "9"

RECURSIVE Str(_)
Str(n) == IF n < 10 THEN Digit(n) ELSE Str(n \div 10) \o Digit(n % 10)

\* os.path.join(a, b) on a POSIX path.
PathJoin(a, b) == a \o "/" \o b

\* seq[i] with Python's indexing (0-based, negative from the end):
\* [ok |-> FALSE] stands for IndexError.
PyIndex(seq, i) ==
    LET j == IF i < 0 THEN i + Len(seq) ELSE i
    IN  IF j >= 0 /\ j < Len(seq)
        THEN [ok |-> TRUE, v |-> seq[j + 1]]
        ELSE [ok |-> FALSE, v |-> 0]

\* ============================================================ main()

\* Learning rates are floats: tenths, plus NaN (float('nan') parses).
LearningRates ==
    [nan : {FALSE}, tenths : {-1, 0, 1, 10, 11}] \cup [nan : {TRUE}, tenths : {0}]

Namespaces ==
    [c1_isdir : BOOLEAN, c2_isdir : BOOLEAN,
     img_size : {3, 4, 256},
     bw : BOOLEAN,
     learning_rate : LearningRates,
     n_folds : 0..MaxFolds,
     n_epochs : {0, 25},
     batch_size : {1, 2, 64}]

\* validate_image_size: img_size >= 4
ImageSizeOk(a) == a.img_size >= 4

\* validate_learning_rate: 0 < lr <= 1 (both comparisons are false on NaN)
LearningRateOk(a) ==
    /\ ~a.learning_rate.nan
    /\ 0 < a.learning_rate.tenths
    /\ a.learning_rate.tenths <= 10

\* validate_n_folds: n_folds >= 2
NFoldsOkNoCheck(a) == TRUE
NFoldsOk(a) == a.n_folds >= 2

\* validate_batch_size: batch_size >= 2
BatchSizeOk(a) == a.batch_size >= 2

\* The number of positional arguments Charts.__init__ accepts besides self.
ChartsInitParams == 0

Raise(e) ==
    /\ pc' = "raised"
    /\ error' = e

Goto(next) ==
    /\ pc' = next
    /\ error' = error

validate_image_folders ==
    /\ pc = "validate_image_folders"
    /\ IF ~args.c1_isdir \/ ~args.c2_isdir
       THEN Raise("NotADirectoryError")
       ELSE Goto("validate_image_size")
    /\ UNCHANGED <<args, built, steps>>

validate_image_size ==
    /\ pc = "validate_image_size"
    /\ IF ~ImageSizeOk(args)
       THEN Raise("ValueError")
       ELSE Goto("validate_learning_rate")
    /\ UNCHANGED <<args, built, steps>>

validate_learning_rate ==
    /\ pc = "validate_learning_rate"
    /\ IF ~LearningRateOk(args)
       THEN Raise("ValueError")
       ELSE Goto("validate_n_folds")
    /\ UNCHANGED <<args, built, steps>>

validate_n_folds ==
    /\ pc = "validate_n_folds"
    /\ IF ~NFoldsOk(args)
       THEN Raise("ValueError")
       ELSE Goto("validate_n_epochs")
    /\ UNCHANGED <<args, built, steps>>

\* The check of n_epochs is commented out: every value passes.
validate_n_epochs ==
    /\ pc = "validate_n_epochs"
    /\ Goto("validate_batch_size")
    /\ UNCHANGED <<args, built, steps>>

validate_batch_size ==
    /\ pc = "validate_batch_size"
    /\ IF ~BatchSizeOk(args)
       THEN Raise("ValueError")
       ELSE Goto("ModelTrainer")
    /\ UNCHANGED <<args, built, steps>>

\* A completed call of main(); fold is -1 outside the loop over the folds.
Step(call, fold) == [call |-> call, fold |-> fold]

\* A collaborator's constructor: it returns the object or raises.
Construct(what, next) ==
    /\ pc = what
    /\ \/ /\ built' = built \cup {what}
          /\ steps' = Append(steps, Step(what, -1))
          /\ Goto(next)
       \/ /\ Raise("CollaboratorError")
          /\ UNCHANGED <<built, steps>>
    /\ UNCHANGED args

\* trainer = ModelTrainer(n_epochs, batch_size)
BuildModelTrainer == Construct("ModelTrainer", "LabeledImages")

\* images = LabeledImages(image_folders, color_mode, SEED)
BuildLabeledImages == Construct("LabeledImages", "SmithsonianModel")

\* architecture = SmithsonianModel(SEED, lr)
BuildSmithsonianModel == Construct("SmithsonianModel", "Charts")

\* charts = Charts(n_folds): one positional argument is passed; Python raises
\* TypeError when __init__ does not accept it. The loop over the folds and
\* finalize (pc = "split" onwards) follow setup()'s return only.
BuildCharts ==
    /\ pc = "Charts"
    /\ IF ChartsInitParams = 1
       THEN /\ built' = built \cup {"Charts"}
            /\ steps' = Append(steps, Step("Charts", -1))
            /\ Goto("split")
       ELSE /\ Raise("TypeError")
            /\ UNCHANGED <<built, steps>>
    /\ UNCHANGED args


\* ===================================================== fold results

\* A training history: history.history, four per-epoch lists. Epoch e of a
\* list holds a value that names the list and the epoch.
MkHistory(nLoss, nAcc) ==
    [loss     |-> [e \in 1..nLoss |-> 10 + e],
     acc      |-> [e \in 1..nAcc  |-> 20 + e],
     val_loss |-> [e \in 1..nLoss |-> 30 + e],
     val_acc  |-> [e \in 1..nAcc  |-> 40 + e]]

\* Histories: empty, equal lengths, accuracy lists longer than the loss lists.
Histories == {MkHistory(0, 0), MkHistory(2, 2), MkHistory(2, 3)}

\* Histories handed to the charts.
ChartHistories == {MkHistory(2, 2), MkHistory(3, 3)}

\* Validation labels with the class-1 probabilities predicted for them (tenths):
\* both classes present (twice), one class only.
FoldOutputs ==
    {[labels |-> <<0, 1>>, prob |-> <<2, 8>>],
     [labels |-> <<1, 0>>, prob |-> <<2, 8>>],
     [labels |-> <<1, 1>>, prob |-> <<2, 8>>]}

\* class_labels, the names of the two image folders.
ClassLabels == <<"c1", "c2">>

FoldIndices == 0..(MaxFolds - 1)

Range(seq) == {seq[i] : i \in DOMAIN seq}

\* ======================================= Charts, ROCChart, AccuracyChart

\* sklearn's roc_curve / roc_auc_score accept the pair: as many scores as
\* labels, and both classes among the labels (roc_auc_score raises ValueError
\* when only one class is present).
RocDefined(labels, prob) ==
    /\ Len(labels) = Len(prob)
    /\ Cardinality(Range(labels)) = 2

\* The results of sklearn's roc_curve and roc_auc_score, as terms over their
\* arguments.
RocCurve(labels, prob) ==
    [fpr |-> <<"fpr", labels, prob>>, tpr |-> <<"tpr", labels, prob>>]

RocAucScore(labels, prob) == <<"auc", labels, prob>>

\* ROCChart.__init__: path = os.path.join('graphs', 'mean_ROC');
\* Chart.__init__: file_extension = '.png'.
RocPath == PathJoin("graphs", "mean_ROC")

FileExtension == ".png"

\* ROCChart.save: plt.savefig(self.path + str(index) + self.file_extension)
RocFileName(index) == RocPath \o Str(index) \o FileExtension

\* AccuracyChart.__init__: path = os.path.join('graphs', 'accuracy')
AccuracyPath == PathJoin("graphs", "accuracy")

\* AccuracyChart.save:
\* plt.savefig(os.path.join('graphs', 'val_accuracy_' + str(index) + '.png'))
AccuracyFileName(index) == PathJoin("graphs", "val_accuracy_" \o Str(index) \o ".png")

\* The call record kept in lastCall.
Call(op, index, labels, prob, history, out) ==
    [op |-> op, index |-> index, labels |-> labels, prob |-> prob,
     history |-> history, out |-> out]

NoCall == Call("None", 0, <<>>, <<>>, MkHistory(0, 0), "None")

\* A call on the DataChartIO object: its arguments are kept in dio and dioCalls.
DioCall(op, out) == Call(op, 0, <<>>, <<>>, MkHistory(0, 0), out)

\* self.fpr[index] = ...; self.tpr[index] = ...; self.auc[index] = ...
RocStoreShifted(r, index, labels, prob) ==
    [fpr |-> DictSet(r.fpr, index + 1, RocCurve(labels, prob).fpr),
     tpr |-> DictSet(r.tpr, index + 1, RocCurve(labels, prob).tpr),
     auc |-> DictSet(r.auc, index + 1, RocAucScore(labels, prob))]

RocStore(r, index, labels, prob) ==
    [fpr |-> DictSet(r.fpr, index, RocCurve(labels, prob).fpr),
     tpr |-> DictSet(r.tpr, index, RocCurve(labels, prob).tpr),
     auc |-> DictSet(r.auc, index, RocAucScore(labels, prob))]

\* The body of ROCChart.update(index, validation_labels,
\* prediction_probability, history), called as `op`.
RocUpdateBody(op, index, labels, prob, history) ==
    IF ~RocDefined(labels, prob)
    THEN /\ lastCall' = Call(op, index, labels, prob, history, "ValueError")
         /\ UNCHANGED <<roc, files>>
    ELSE /\ roc' = RocStore(roc, index, labels, prob)
         /\ files' = files \cup {RocFileName(index)}
         /\ lastCall' = Call(op, index, labels, prob, history, "ok")

ROCChartUpdate ==
    \E index \in FoldIndices, fo \in FoldOutputs :
        /\ RocUpdateBody("ROCChart.update", index, fo.labels, fo.prob,
                         MkHistory(2, 2))
        /\ UNCHANGED accuracy

\* self.training[index] = history.history['acc']
\* self.validation[index] = history.history['val_acc']
AccuracyStore(a, index, history) ==
    [training   |-> DictSet(a.training, index, history.acc),
     validation |-> DictSet(a.validation, index, history.val_acc)]

\* AccuracyChart.update(index, validation_labels, prediction_probability, history)
AccuracyChartUpdate ==
    \E index \in FoldIndices, history \in ChartHistories :
        /\ accuracy' = AccuracyStore(accuracy, index, history)
        /\ files' = files \cup {AccuracyFileName(index)}
        /\ lastCall' = Call("AccuracyChart.update", index, <<0, 1>>, <<2, 8>>,
                            history, "ok")
        /\ UNCHANGED roc

\* The positional parameters of ROCChart.update besides self:
\* index, validation_labels, prediction_probability, history.
RocUpdateParams == 4

\* The positional arguments Charts.update passes to each.update:
\* index, validation_labels, prediction_probability.
ChartsUpdatePasses == 3

\* Charts.update(history, index, validation_labels,
\*               validation_predicted_classification, prediction_probability)
\* called as main() calls it:
\*   charts.update(history, index, validation_set[1],
\*                 validation_predicted_probability, class_labels)
\* so the parameter prediction_probability is bound to class_labels. all_charts
\* holds one ROCChart; the call each.update(...) raises TypeError when the
\* argument count does not fit the parameters.
ChartsUpdate ==
    \E index \in FoldIndices, fo \in FoldOutputs, history \in {MkHistory(2, 2)} :
        /\ IF ChartsUpdatePasses = RocUpdateParams
           THEN RocUpdateBody("Charts.update", index, fo.labels, ClassLabels, history)
           ELSE /\ lastCall' = Call("Charts.update", index, fo.labels, fo.prob,
                                    history, "TypeError")
                /\ UNCHANGED <<roc, files>>
        /\ UNCHANGED accuracy

\* Charts.finalize is commented out: charts.finalize() raises AttributeError.
ChartsHasFinalize == FALSE

ChartsFinalize ==
    /\ ~ChartsHasFinalize
    /\ lastCall' = Call("Charts.finalize", 0, <<>>, <<>>, MkHistory(0, 0),
                        "AttributeError")
    /\ UNCHANGED <<roc, accuracy, files>>

\* ============================================================ DataChartIO

\* sklearn's confusion_matrix(y_true, y_pred).ravel(): the counts
\* <<tn, fp, fn, tp>> when both classes occur among the labels and the
\* predictions; otherwise the matrix is not 2x2 and unpacking four values
\* raises ValueError, as do sequences of different lengths.
ConfusionDefined(labels, predicted) ==
    /\ Len(labels) = Len(predicted)
    /\ Cardinality(Range(labels) \cup Range(predicted)) = 2

ConfusionCount(labels, predicted, l, p) ==
    Cardinality({i \in DOMAIN labels : labels[i] = l /\ predicted[i] = p})

ConfusionMatrix(labels, predicted) ==
    [tn |-> ConfusionCount(labels, predicted, 0, 0),
     fp |-> ConfusionCount(labels, predicted, 0, 1),
     fn |-> ConfusionCount(labels, predicted, 1, 0),
     tp |-> ConfusionCount(labels, predicted, 1, 1)]

\* Validation labels with the classes predicted for them.
Classifications ==
    {[labels |-> <<0, 1, 1>>, predicted |-> <<0, 1, 0>>],
     [labels |-> <<1, 1>>, predicted |-> <<1, 1>>]}

\* The row update_values appends: the values at position num_epochs - 1 of
\* the four lists, num_epochs = len(history.history['loss']). [ok |-> FALSE]
\* stands for the IndexError of a list too short.
EpochFirst(history) == 0
EpochRecorded(history) == Len(history.loss) - 1

ResultRowZeroBased(history, index, cm) ==
    LET e   == EpochRecorded(history)
        l   == PyIndex(history.loss, e)
        a   == PyIndex(history.acc, e)
        vl  == PyIndex(history.val_loss, e)
        va  == PyIndex(history.val_acc, e)
    IN  [ok  |-> l.ok /\ a.ok /\ vl.ok /\ va.ok,
         row |-> <<index, l.v, a.v, vl.v, va.v, cm.tn, cm.fp, cm.fn, cm.tp>>]

ResultRow(history, index, cm) ==
    LET e   == EpochRecorded(history)
        l   == PyIndex(history.loss, e)
        a   == PyIndex(history.acc, e)
        vl  == PyIndex(history.val_loss, e)
        va  == PyIndex(history.val_acc, e)
    IN  [ok  |-> l.ok /\ a.ok /\ vl.ok /\ va.ok,
         row |-> <<index + 1, l.v, a.v, vl.v, va.v, cm.tn, cm.fp, cm.fn, cm.tp>>]

\* plot_accuracy / plot_loss: the file names, from self.index.
DioAccuracyFileName(index) ==
    PathJoin("graphs", "val_accuracy_" \o Str(index) \o ".png")

DioLossFileName(index) ==
    PathJoin("graphs", "val_loss_" \o Str(index) \o ".png")

\* DataChartIO.update_and_save_graphs(history, index, validation_labels,
\*     validation_predicted_classification, validation_predicted_probability):
\* confusion_matrix, update_values, plot_accuracy, plot_loss.
UpdateAndSaveGraphs ==
    /\ Len(dio.results) < MaxFolds
    /\ \E index \in FoldIndices, history \in Histories, c \in Classifications :
        IF ~ConfusionDefined(c.labels, c.predicted)
        THEN /\ lastCall' = DioCall("update_and_save_graphs", "ValueError")
             /\ UNCHANGED <<dio, dioCalls, files>>
        ELSE LET r == ResultRow(history, index,
                                ConfusionMatrix(c.labels, c.predicted))
             IN  IF ~r.ok
                 THEN /\ dio' = [dio EXCEPT !.history = history,
                                            !.index = index + 1]
                      /\ lastCall' = DioCall("update_and_save_graphs", "IndexError")
                      /\ UNCHANGED <<dioCalls, files>>
                 ELSE /\ dio' = [history |-> history, index |-> index + 1,
                                 results |-> Append(dio.results, r.row)]
                      /\ files' = files \cup {DioAccuracyFileName(index + 1),
                                              DioLossFileName(index + 1)}
                      /\ dioCalls' = Append(dioCalls,
                                            [index |-> index, history |-> history])
                      /\ lastCall' = DioCall("update_and_save_graphs", "ok")
    /\ UNCHANGED csv

\* The columns of self.results: the frame built from lists keeps the integer
\* labels 0..8 (rename returns a new frame, which is dropped); an empty frame
\* has none.
ResultColumns(results) == IF results = <<>> THEN <<>> ELSE [i \in 1..9 |-> i - 1]

\* DataChartIO.save_results_to_csv: to_csv(..., index=False)
SaveResultsToCsv ==
    /\ csv' = [written |-> TRUE, header |-> ResultColumns(dio.results),
               rows |-> dio.results]
    /\ lastCall' = DioCall("save_results_to_csv", "ok")
    /\ UNCHANGED <<dio, dioCalls, files>>

\* ======================================================= specifications

InitMain ==
    /\ args \in Namespaces
    /\ pc = "validate_image_folders"
    /\ built = {}
    /\ steps = <<>>
    /\ error = "None"

\* main() is not running: the objects are used directly.
NoMain ==
    /\ args \in {a \in Namespaces :
                    /\ a.c1_isdir /\ a.c2_isdir /\ a.img_size = 256 /\ ~a.bw
                    /\ a.learning_rate = [nan |-> FALSE, tenths |-> 1]
                    /\ a.n_folds = MaxFolds /\ a.n_epochs = 25 /\ a.batch_size = 64}
    /\ pc = "None"
    /\ built = {}
    /\ steps = <<>>
    /\ error = "None"

\* Charts(): all_charts = [ROCChart()]; AccuracyChart(): empty dicts.
InitCharts ==
    /\ roc = [fpr |-> EmptyDict, tpr |-> EmptyDict, auc |-> EmptyDict]
    /\ accuracy = [training |-> EmptyDict, validation |-> EmptyDict]

\* DataChartIO(): index 0, history None (written as the empty history), an
\* empty frame; no file written.
InitData ==
    /\ dio = [index |-> 0, history |-> MkHistory(0, 0), results |-> <<>>]
    /\ csv = [written |-> FALSE, header |-> <<>>, rows |-> <<>>]
    /\ dioCalls = <<>>

InitIo ==
    /\ files = {}
    /\ lastCall = NoCall

Init == InitMain /\ InitCharts /\ InitData /\ InitIo

Next ==
    \/ validate_image_folders /\ UNCHANGED <<chartVars, dataVars, ioVars>>
    \/ validate_image_size /\ UNCHANGED <<chartVars, dataVars, ioVars>>
    \/ validate_learning_rate /\ UNCHANGED <<chartVars, dataVars, ioVars>>
    \/ validate_n_folds /\ UNCHANGED <<chartVars, dataVars, ioVars>>
    \/ validate_n_epochs /\ UNCHANGED <<chartVars, dataVars, ioVars>>
    \/ validate_batch_size /\ UNCHANGED <<chartVars, dataVars, ioVars>>
    \/ BuildModelTrainer /\ UNCHANGED <<chartVars, dataVars, ioVars>>
    \/ BuildLabeledImages /\ UNCHANGED <<chartVars, dataVars, ioVars>>
    \/ BuildSmithsonianModel /\ UNCHANGED <<chartVars, dataVars, ioVars>>
    \/ BuildCharts /\ UNCHANGED <<chartVars, dataVars, ioVars>>

Spec == Init /\ [][Next]_vars

\* The objects right after construction, main() not running.
InitObjects == NoMain /\ InitCharts /\ InitData /\ InitIo

NextCharts ==
    \/ ROCChartUpdate /\ UNCHANGED <<mainVars, dataVars>>
    \/ AccuracyChartUpdate /\ UNCHANGED <<mainVars, dataVars>>
    \/ ChartsUpdate /\ UNCHANGED <<mainVars, dataVars>>
    \/ ChartsFinalize /\ UNCHANGED <<mainVars, dataVars>>

SpecCharts == InitObjects /\ [][NextCharts]_vars

NextData ==
    \/ UpdateAndSaveGraphs /\ UNCHANGED <<mainVars, chartVars>>
    \/ SaveResultsToCsv /\ UNCHANGED <<mainVars, chartVars>>

SpecData == InitObjects /\ [][NextData]_vars

\* ================================================================ claims

\* ---------------------------------------------------------------- C1
\* The arguments pass every check of get_arguments().
ArgumentsAccepted(a) ==
    /\ a.c1_isdir /\ a.c2_isdir
    /\ a.img_size >= 4
    /\ ~a.learning_rate.nan /\ a.learning_rate.tenths > 0 /\ a.learning_rate.tenths <= 10
    /\ a.n_folds >= 2
    /\ a.batch_size >= 2

\* The calls of one fold, in the order the driver is to make them.
FoldSteps(i) ==
    <<Step("reset_model", i), Step("train_new_model_and_save", i),
      Step("predict_proba", i), Step("Charts.update", i)>>

RECURSIVE AllFoldSteps(_)
AllFoldSteps(n) == IF n = 0 THEN <<>> ELSE AllFoldSteps(n - 1) \o FoldSteps(n - 1)

SetupSteps ==
    <<Step("ModelTrainer", -1), Step("LabeledImages", -1),
      Step("SmithsonianModel", -1), Step("Charts", -1)>>

\* C1: a run of main() with accepted arguments in which no collaborator fails
\* ends without an error, having handled the folds 0..n_folds-1 in ascending
\* order, each as reset, train, predict, Charts.update, and having called
\* finalize exactly once, after the update of the last fold.
C1_RunHandlesEveryFoldThenFinalizes ==
    (pc \in {"raised", "returned"} /\ ArgumentsAccepted(args)
        /\ error /= "CollaboratorError")
    => /\ error = "None"
       /\ steps = SetupSteps \o AllFoldSteps(args.n_folds) \o <<Step("finalize", -1)>>

\* ---------------------------------------------------------------- C3
\* The argument sets the claim names: a fold count below 2, a learning rate
\* outside (0, 1], a batch size below 2, a class directory that does not exist.
ArgumentsRejected(a) ==
    \/ a.n_folds < 2
    \/ a.learning_rate.nan \/ a.learning_rate.tenths <= 0 \/ a.learning_rate.tenths > 10
    \/ a.batch_size < 2
    \/ ~a.c1_isdir \/ ~a.c2_isdir

GetArgumentsPcs ==
    {"validate_image_folders", "validate_image_size", "validate_learning_rate",
     "validate_n_folds", "validate_n_epochs", "validate_batch_size"}

\* C3: with such arguments main() never leaves get_arguments() except by an
\* error of the validation (NotADirectoryError, ValueError): setup() builds
\* neither trainer, images, model nor charts, and main() completes no call.
C3_InvalidArgumentsFailBeforeSetup ==
    ArgumentsRejected(args)
    => /\ built = {}
       /\ steps = <<>>
       /\ pc \in GetArgumentsPcs \cup {"raised"}
       /\ pc = "raised" => error \in {"NotADirectoryError", "ValueError"}

\* A run rejected for its fold count alone.
C3_Witness ==
    /\ pc = "raised" /\ error = "ValueError"
    /\ args.n_folds < 2
    /\ args.c1_isdir /\ args.c2_isdir /\ args.img_size >= 4 /\ args.batch_size >= 2
    /\ ~args.learning_rate.nan /\ args.learning_rate.tenths = 1

\* ---------------------------------------------------------------- C5
\* The dicts of the two accumulators.
Mappings(r, a) == <<r.fpr, r.tpr, r.auc, a.training, a.validation>>

RocMappings == {1, 2, 3}
AccuracyMappings == {4, 5}

\* d2 is d with one entry more, under key k, and no entry of d changed.
GainsEntry(d, d2, k) ==
    /\ DOMAIN d2 = (DOMAIN d) \cup {k}
    /\ Cardinality(DOMAIN d2) = Cardinality(DOMAIN d) + 1
    /\ \A x \in DOMAIN d : d2[x] = d[x]

C5_Step ==
    LET c    == lastCall'
        old  == Mappings(roc, accuracy)
        new  == Mappings(roc', accuracy')
        mine == IF c.out /= "ok" THEN {}
                ELSE IF c.op = "ROCChart.update" THEN RocMappings
                ELSE IF c.op = "AccuracyChart.update" THEN AccuracyMappings
                ELSE {}
    IN  /\ \A m \in mine :
              c.index \notin DOMAIN old[m] => GainsEntry(old[m], new[m], c.index)
        /\ \A m \in (RocMappings \cup AccuracyMappings) \ mine : new[m] = old[m]
        /\ (c.op = "ROCChart.update" /\ c.out = "ok")
           => /\ roc'.fpr[c.index] = RocCurve(c.labels, c.prob).fpr
              /\ roc'.tpr[c.index] = RocCurve(c.labels, c.prob).tpr
              /\ roc'.auc[c.index] = RocAucScore(c.labels, c.prob)
        /\ (c.op = "AccuracyChart.update" /\ c.out = "ok")
           => /\ accuracy'.training[c.index] = c.history.acc
              /\ accuracy'.validation[c.index] = c.history.val_acc

\* C5: every update call that returns, made with a fold index the accumulator
\* has not been given before, adds exactly one entry to each dict of that
\* accumulator, under exactly that index and holding what was computed from
\* the call's arguments; it changes no entry stored before, and no call
\* changes a dict of the other accumulator.
C5_UpdateAddsOneEntryPerMapping == [][C5_Step]_vars

\* Both accumulators hold the entries of two folds, the later just stored.
C5_Witness ==
    /\ DOMAIN roc.auc = {0, 1}
    /\ DOMAIN roc.fpr = {0, 1}
    /\ DOMAIN accuracy.training = {0, 2}
    /\ roc.auc[0] /= roc.auc[1]
    /\ lastCall.op = "AccuracyChart.update" /\ lastCall.index = 2

\* ---------------------------------------------------------------- C6
\* C6: after a call of Charts.update for a fold, the registered accumulator
\* (the ROCChart) holds the entries computed from that fold's validation
\* labels and predicted probabilities under that fold's index, and the chart
\* file of that fold is saved.
C6_ChartsUpdateDeliversFoldResult ==
    lastCall.op = "Charts.update"
    => /\ lastCall.out = "ok"
       /\ lastCall.index \in DOMAIN roc.auc
       /\ roc.auc[lastCall.index] = RocAucScore(lastCall.labels, lastCall.prob)
       /\ roc.fpr[lastCall.index] = RocCurve(lastCall.labels, lastCall.prob).fpr
       /\ roc.tpr[lastCall.index] = RocCurve(lastCall.labels, lastCall.prob).tpr
       /\ RocFileName(lastCall.index) \in files

\* ---------------------------------------------------------------- C7
\* The folds 0..n-1 were handled, in this order, and nothing else.
FoldsRun(n) ==
    /\ Len(dioCalls) = n
    /\ \A k \in 1..n : dioCalls[k].index = k - 1

C8_EarlyFinalizeFailsWithLengthMismatch ==
    (lastCall.op = "Charts.finalize" /\ Cardinality(DOMAIN roc.auc) < args.n_folds)
    => /\ lastCall.out = "LengthMismatchError"
       /\ ~csv.written

\* ---------------------------------------------------------------- C9
\* The fold index as two zero-padded decimal digits ('%02d').
TwoDigits(n) == IF n < 10 THEN "0" \o Str(n) ELSE Str(n)

\* The file name the claim gives fold `index` of a chart type.
PaddedFileName(chartType, index) ==
    PathJoin("graphs", chartType) \o TwoDigits(index) \o ".png"

\* C9: the chart file an accumulator saves for fold i is named by its chart
\* type, the fold index as two zero-padded digits and '.png'.
C9_ChartFilesNamedByTypeAndPaddedIndex ==
    /\ (lastCall.op = "ROCChart.update" /\ lastCall.out = "ok")
       => PaddedFileName("mean_ROC", lastCall.index) \in files
    /\ (lastCall.op = "AccuracyChart.update" /\ lastCall.out = "ok")
       => PaddedFileName("accuracy", lastCall.index) \in files

\* --------------------------------------------------------------- C10
\* The four lists of the history are non-empty and of one length.
HistoryWellFormed(h) ==
    /\ Len(h.loss) >= 1
    /\ Len(h.acc) = Len(h.loss)
    /\ Len(h.val_loss) = Len(h.loss)
    /\ Len(h.val_acc) = Len(h.loss)

Last(seq) == seq[Len(seq)]

Earlier(seq) == {seq[e] : e \in 1..(Len(seq) - 1)}

\* C10: every handled fold has its row, and the row of a fold whose history
\* is well formed holds the last elements of the training and validation
\* loss and accuracy lists, and no element of an earlier epoch.
C10_RowHoldsFinalEpochValues ==
    /\ Len(dio.results) = Len(dioCalls)
    /\ \A k \in 1..Len(dioCalls) :
          LET h == dioCalls[k].history
              r == dio.results[k]
          IN  HistoryWellFormed(h)
              => /\ r[2] = Last(h.loss)     /\ r[2] \notin Earlier(h.loss)
                 /\ r[3] = Last(h.acc)      /\ r[3] \notin Earlier(h.acc)
                 /\ r[4] = Last(h.val_loss) /\ r[4] \notin Earlier(h.val_loss)
                 /\ r[5] = Last(h.val_acc)  /\ r[5] \notin Earlier(h.val_acc)

\* A row recorded from a well-formed history of more than one epoch.
C10_Witness ==
    \E k \in 1..Len(dioCalls) :
        /\ HistoryWellFormed(dioCalls[k].history)
        /\ Len(dioCalls[k].history.acc) >= 2
        /\ Len(dio.results) >= k

====
